---- MODULE Spec2Model ----
(***************************************************************************)
(* bigOcalculator: the measurement-and-classification engine.              *)
(*                                                                         *)
(*   runSingleAnalysis  (src/utils/analysisRunner.js)  the facade          *)
(*   runAnalysis        (src/calculator.js)            the benchmarker     *)
(*   determineComplexity(src/calculator.js)            the classifier      *)
(*                                                                         *)
(*   reducer, handleSubmit (web-frontend/src/App.js)   the web consumer    *)
(*   displayAnalysis, main (src/index.js)              the CLI consumer    *)
(*   formatResult, main    (verifyAlg.js)              the verifier        *)
(*                                                                         *)
(* Spec         one call of runSingleAnalysis or of runAnalysis, stepped   *)
(*              through warmup, calibration, measurement and return, with  *)
(*              the clock and the candidate function as the environment.   *)
(* SpecClassify one call of determineComplexity on a sample sequence drawn *)
(*              from bounded sets.                                         *)
(* SpecFront    one consumer: it makes the sizes of a growth strategy and  *)
(*              gates the result it gets on the confidence.                *)
(***************************************************************************)
EXTENDS Integers, Sequences, FiniteSets, TLC

VARIABLES
  \* ---- one analysis run (runSingleAnalysis / runAnalysis)
  pc,            \* position in the run
  entry,         \* which function the caller called
  inputSizes,    \* argument inputSizes
  iterations,    \* argument iterations
  warm,          \* i of the warmup loop (line 108)
  k,             \* index of the size n the for-of loop is at (line 113)
  calCount,      \* calCount (line 121)
  calElapsed,    \* calEnd - calStart (lines 119-120, 131)
  batchSize,     \* batchSize (line 117, 139)
  times,         \* times (line 142): the per-call estimates of this size
  dataPoints,    \* dataPoints (line 101)
  invocations,   \* how many times the candidate has been invoked
  raised,        \* the exception the candidate threw, if it did
  inputMode,     \* argument inputMode: 'array' or 'number'
  warmupSize,    \* warmupSize (line 105), 0 while there is none
  input,         \* the input the candidate is being invoked on: the size it
                 \* was made for and how many invocations it has been passed to
  reused,        \* an invocation was passed an array that an earlier
                 \* invocation had been passed already
  sizeCalls,     \* invocations made for the size the for-of loop is at
  outcome,       \* what the caller gets back
  \* ---- one classification (determineComplexity)
  cpc,           \* position of the classification call
  samples,       \* argument dataPoints of determineComplexity
  timeDen,       \* samples[i].time is samples[i].time / timeDen milliseconds
  regressed,     \* timeValues (line 185): the times the regressions are fed
  classification,\* what determineComplexity returned, or that it threw
  given,         \* the caller's sample sequence as it was before the call
  second,        \* what a second call on the same sequence returned
  \* ---- one consumer of the core: the web page, the CLI, the verifier
  fpc,           \* position of the consumer
  consumer,      \* "web" (App.js), "cli" (index.js main), "verify" (verifyAlg.js)
  strategy,      \* the growth strategy chosen
  params,        \* the numbers entered for the strategy
  plan,          \* inputSizes
  cursor,        \* i of the loop of App.js line 95
  web,           \* the state the reducer of App.js keeps
  shown,         \* what displayAnalysis or formatResult put out
  reran,         \* the CLI has run its high-precision analysis
  overrun        \* sizes pushed by the loop of App.js line 95 after the
                 \* first MaxPlan, counted modulo 2

benchVars == <<pc, entry, inputSizes, iterations, warm, k, calCount, calElapsed,
               batchSize, times, dataPoints, invocations, raised, outcome,
               inputMode, warmupSize, input, reused, sizeCalls>>
classVars == <<cpc, samples, timeDen, regressed, classification, given, second>>
frontVars == <<fpc, consumer, strategy, params, plan, cursor, web, shown, reran,
               overrun>>
vars == <<benchVars, classVars, frontVars>>

----------------------------------------------------------------------------
(* Bounds of the model *)

\* at most this many sizes are requested in one run
MaxSizes == 2
\* iterations is drawn from 1..MaxIterations
MaxIterations == 2
\* stands for the iteration ceiling 1000000 of line 125; the model steps
\* through every calibration invocation, so the ceiling is scaled down
CalLimit == 3

\* sample times are drawn from -1..MaxTime (in units of 1/timeDen ms) and NaN
MaxTime == 3
\* at most this many samples are classified
MaxSamples == 3
\* the synthetic linear-cost samples have time = slope * n / 1000 (in units
\* of 1/timeDen ms) for slope in 1..MaxSlope
MaxSlope == 2
\* the numbers a user enters are drawn from -1..MaxParam
MaxParam == 2
\* the sizes pushed by the loop of App.js line 95 are kept up to this many;
\* a loop that ends over -1..MaxParam pushes at most MaxParam + 2 of them
MaxPlan == 4
\* an RMSE is held in fixed point, as the integer floor(RmseScale * rmse)
\* for rmse in units of 1/timeDen ms
RmseScale == 500

(* Program constants *)

WarmupRuns == 100
CalThreshold == 5
TargetDuration == 15
\* 1 / 0.001: the substitute for a calibration duration of 0 (line 139)
ZeroDurationInv == 1000

\* 1 / 1e-4: the ultra-fast threshold on the mean time (line 227)
UltraFastInv == 10000
\* 1 / 1e-9: the substitute for a best RMSE of 0 (line 246)
EpsilonInv == 1000000000
\* the tolerance 0.15 of the simplicity tie-break, in percent (line 247)
TolerancePct == 15
\* the confidence of the ultra-fast regime (line 240)
UltraFastConfidence == 95
\* the weights 0.7 and 0.3 of the confidence, times 100 (line 270)
FitWeight == 70
SeparationWeight == 30
\* the confidence at which the consumers gate the result
\* (App.js line 45, index.js lines 236-239, verifyAlg.js line 19)
GateThreshold == 75

\* the difference between two consecutive readings of performance.now(), in
\* milliseconds (the clock is monotonic); 0 is a clock that did not advance
ClockDeltas == {0, 7}
\* the exceptions the candidate function may throw
Exceptions == {"E1", "E2"}
NoException == "none"

----------------------------------------------------------------------------
(* Helpers *)

Max(a, b) == IF a >= b THEN a ELSE b

\* Math.ceil(a / b) for integers a and b, b # 0
CeilDiv(a, b) ==
  IF b > 0 THEN -((-a) \div b) ELSE -(a \div (-b))

RECURSIVE SumOf(_)
SumOf(s) == IF s = <<>> THEN 0 ELSE Head(s) + SumOf(Tail(s))

\* the sizes a caller requests in the model
RequestedSizes == {1, 2}

\* every sequence of at most MaxSizes sizes: any order, repeats allowed
SizeSeqs == UNION {[1..len -> RequestedSizes] : len \in 0..MaxSizes}

----------------------------------------------------------------------------
(* runSingleAnalysis and runAnalysis *)

\* the result runSingleAnalysis returns for fewer than 2 sizes (lines 65-69)
DegenerateResult ==
  [threw |-> FALSE, bestFit |-> "N/A", confidence |-> 0,
   confidenceNaN |-> FALSE, results |-> <<>>]

NoResult ==
  [threw |-> FALSE, bestFit |-> "", confidence |-> 0,
   confidenceNaN |-> FALSE, results |-> <<>>]

NoOutcome ==
  [kind |-> "pending", exc |-> NoException, samples |-> <<>>, result |-> NoResult]

\* runSingleAnalysis: if (inputSizes.length < 2)   (line 63)
FacadeShortCircuits(sizes) == Len(sizes) < 2

\* the loop condition of the calibration (line 125)
CalibrationContinuesOffByOne(elapsed, count) ==
  elapsed < CalThreshold /\ count <= CalLimit

CalibrationContinues(elapsed, count) ==
  elapsed < CalThreshold /\ count < CalLimit

\* batchSize after the calibration (lines 117, 134-140); duration in ms
BatchSizeAlwaysComputed(count, duration) ==
  IF duration = 0
    THEN TargetDuration * count * ZeroDurationInv
    ELSE CeilDiv(TargetDuration * count, duration)

BatchSizeZeroInit(count, duration) ==
  IF count > 1
    THEN IF duration = 0
           THEN TargetDuration * count * ZeroDurationInv
           ELSE CeilDiv(TargetDuration * count, duration)
    ELSE 0

BatchSizeFor(count, duration) ==
  IF count > 1
    THEN IF duration = 0
           THEN TargetDuration * count * ZeroDurationInv
           ELSE CeilDiv(TargetDuration * count, duration)
    ELSE 1

\* how many times the batch loop of line 149 invokes the candidate
BatchCallsOffByOne(b) == IF b >= 0 THEN b + 1 ELSE 0

BatchCalls(b) == IF b > 0 THEN b ELSE 0

\* (end - start) / batchSize (line 155), as the fraction num / den;
\* den = 0 is the division by zero, whose value is not finite
Estimate(elapsed, b) == [num |-> elapsed, den |-> b]

\* ss.mean(times) (line 158): every estimate of one size has the same den
MeanOf(ts) ==
  [num |-> SumOf([i \in 1..Len(ts) |-> ts[i].num]),
   den |-> ts[1].den * Len(ts)]

\* dataPoints.push({ n, time: avgTime }) (line 161)
PushDataPointFront(dp, n, t) == <<[n |-> n, time |-> t]>> \o dp

PushDataPoint(dp, n, t) == Append(dp, [n |-> n, time |-> t])

\* neither runAnalysis nor runSingleAnalysis catches: what the candidate
\* throws is what the caller gets
PropagateWrapped(e) == "AnalysisError"

Propagate(e) == e

\* the input of line 106, 118 or 145: the number n itself, or a new array
\* generateInputArray(n) (lines 89-91) that no invocation has seen yet
NoInput == [n |-> 0, uses |-> 0]

InputFor(mode, n) == [n |-> n, uses |-> 0]

\* line 145: the input of one measurement round
RoundInputReused(current, mode, n) == current

RoundInput(current, mode, n) == InputFor(mode, n)

\* the input after j more invocations on it
Invoked(in, j) == [in EXCEPT !.uses = @ + j]

\* j invocations on the input in: in array mode every invocation but the
\* first one on a new array is passed an array passed before
Reuses(mode, in, j) == mode = "array" /\ j > 0 /\ in.uses + j > 1

Thrown(e) ==
  /\ pc' = "thrown"
  /\ raised' = e
  /\ outcome' = [NoOutcome EXCEPT !.kind = "throw", !.exc = Propagate(e)]

InitBench ==
  /\ pc = "call"
  /\ entry \in {"runSingleAnalysis", "runAnalysis"}
  /\ inputSizes \in SizeSeqs
  /\ iterations \in 1..MaxIterations
  /\ warm = 0
  /\ k = 0
  /\ calCount = 0
  /\ calElapsed = 0
  /\ batchSize = 1
  /\ times = <<>>
  /\ dataPoints = <<>>
  /\ invocations = 0
  /\ raised = NoException
  /\ outcome = NoOutcome
  /\ inputMode \in {"array", "number"}
  /\ warmupSize = 0
  /\ input = NoInput
  /\ reused = FALSE
  /\ sizeCalls = 0

\* runSingleAnalysis lines 63-70: too few sizes, nothing is measured
FacadeShortCircuit ==
  /\ pc = "call"
  /\ entry = "runSingleAnalysis"
  /\ FacadeShortCircuits(inputSizes)
  /\ pc' = "done"
  /\ outcome' = [NoOutcome EXCEPT !.kind = "result", !.result = DegenerateResult]
  /\ UNCHANGED <<classVars, frontVars>>
  /\ UNCHANGED <<entry, inputSizes, iterations, warm, k, calCount, calElapsed,
                 batchSize, times, dataPoints, invocations, raised>>
  /\ UNCHANGED <<inputMode, warmupSize, input, reused, sizeCalls>>

\* runAnalysis is entered: by the caller, or by runSingleAnalysis (line 71);
\* lines 104-106 take the warmup size and make the warmup input
EnterRunAnalysis ==
  /\ pc = "call"
  /\ entry = "runSingleAnalysis" => ~FacadeShortCircuits(inputSizes)
  /\ pc' = "warmup"
  /\ dataPoints' = <<>>
  /\ warm' = 0
  /\ IF Len(inputSizes) > 0
       THEN /\ warmupSize' = inputSizes[1]
            /\ input' = InputFor(inputMode, inputSizes[1])
       ELSE UNCHANGED <<warmupSize, input>>
  /\ UNCHANGED <<classVars, frontVars>>
  /\ UNCHANGED <<entry, inputSizes, iterations, k, calCount, calElapsed,
                 batchSize, times, invocations, raised, outcome>>
  /\ UNCHANGED <<inputMode, reused, sizeCalls>>

\* lines 104-110: one warmup invocation that returns
WarmupInvoke ==
  /\ pc = "warmup"
  /\ Len(inputSizes) > 0
  /\ warm < WarmupRuns
  /\ warm' = warm + 1
  /\ invocations' = invocations + 1
  /\ UNCHANGED <<classVars, frontVars>>
  /\ input' = Invoked(input, 1)
  /\ reused' = (reused \/ Reuses(inputMode, input, 1))
  /\ UNCHANGED <<pc, entry, inputSizes, iterations, k, calCount, calElapsed,
                 batchSize, times, dataPoints, raised, outcome>>
  /\ UNCHANGED <<inputMode, warmupSize, sizeCalls>>

\* one warmup invocation that throws
WarmupThrow ==
  /\ pc = "warmup"
  /\ Len(inputSizes) > 0
  /\ warm < WarmupRuns
  /\ invocations' = invocations + 1
  /\ \E e \in Exceptions : Thrown(e)
  /\ UNCHANGED <<classVars, frontVars>>
  /\ input' = Invoked(input, 1)
  /\ reused' = (reused \/ Reuses(inputMode, input, 1))
  /\ UNCHANGED <<entry, inputSizes, iterations, warm, k, calCount, calElapsed,
                 batchSize, times, dataPoints>>
  /\ UNCHANGED <<inputMode, warmupSize, sizeCalls>>

\* the warmup is over, or there was none: the for-of loop of line 113 starts
WarmupDone ==
  /\ pc = "warmup"
  /\ Len(inputSizes) = 0 \/ warm = WarmupRuns
  /\ pc' = "loop"
  /\ k' = 1
  /\ UNCHANGED <<classVars, frontVars>>
  /\ UNCHANGED <<entry, inputSizes, iterations, warm, calCount, calElapsed,
                 batchSize, times, dataPoints, invocations,
                 raised, outcome>>
  /\ UNCHANGED <<inputMode, warmupSize, input, reused, sizeCalls>>

\* lines 117-121: the next size n = inputSizes[k] and its calibration input
BeginSize ==
  /\ pc = "loop"
  /\ k <= Len(inputSizes)
  /\ pc' = "calibrate"
  /\ batchSize' = 1
  /\ calCount' = 0
  /\ calElapsed' = 0
  /\ input' = InputFor(inputMode, inputSizes[k])
  /\ sizeCalls' = 0
  /\ UNCHANGED <<classVars, frontVars>>
  /\ UNCHANGED <<entry, inputSizes, iterations, warm, k, times, dataPoints,
                 invocations, raised, outcome>>
  /\ UNCHANGED <<inputMode, warmupSize, reused>>

\* lines 125-132: one calibration invocation that returns, then a clock reading
CalibrateInvoke ==
  /\ pc = "calibrate"
  /\ CalibrationContinues(calElapsed, calCount)
  /\ calCount' = calCount + 1
  /\ invocations' = invocations + 1
  /\ \E d \in ClockDeltas : calElapsed' = calElapsed + d
  /\ UNCHANGED <<classVars, frontVars>>
  /\ input' = Invoked(input, 1)
  /\ reused' = (reused \/ Reuses(inputMode, input, 1))
  /\ sizeCalls' = sizeCalls + 1
  /\ UNCHANGED <<pc, entry, inputSizes, iterations, warm, k, batchSize, times,
                 dataPoints, raised, outcome>>
  /\ UNCHANGED <<inputMode, warmupSize>>

\* one calibration invocation that throws
CalibrateThrow ==
  /\ pc = "calibrate"
  /\ CalibrationContinues(calElapsed, calCount)
  /\ invocations' = invocations + 1
  /\ \E e \in Exceptions : Thrown(e)
  /\ UNCHANGED <<classVars, frontVars>>
  /\ input' = Invoked(input, 1)
  /\ reused' = (reused \/ Reuses(inputMode, input, 1))
  /\ sizeCalls' = sizeCalls + 1
  /\ UNCHANGED <<entry, inputSizes, iterations, warm, k, calCount, calElapsed,
                 batchSize, times, dataPoints>>
  /\ UNCHANGED <<inputMode, warmupSize>>

\* lines 134-142: the calibration loop is left, batchSize is set
CalibrateExit ==
  /\ pc = "calibrate"
  /\ ~CalibrationContinues(calElapsed, calCount)
  /\ batchSize' = BatchSizeFor(calCount, calElapsed)
  /\ times' = <<>>
  /\ pc' = "measure"
  /\ UNCHANGED <<classVars, frontVars>>
  /\ UNCHANGED <<entry, inputSizes, iterations, warm, k, calCount, calElapsed,
                 dataPoints, invocations, raised, outcome>>
  /\ UNCHANGED <<inputMode, warmupSize, input, reused, sizeCalls>>

\* lines 143-156: one timed round in which every invocation returns; the
\* batch loop of lines 149-151 runs to its end between the two readings
MeasureRound ==
  /\ pc = "measure"
  /\ Len(times) < iterations
  /\ invocations' = invocations + BatchCalls(batchSize)
  /\ \E d \in ClockDeltas : times' = Append(times, Estimate(d, batchSize))
  /\ UNCHANGED <<classVars, frontVars>>
  /\ LET fresh == RoundInput(input, inputMode, inputSizes[k])
     IN /\ input' = Invoked(fresh, BatchCalls(batchSize))
        /\ reused' = (reused \/ Reuses(inputMode, fresh, BatchCalls(batchSize)))
  /\ sizeCalls' = sizeCalls + BatchCalls(batchSize)
  /\ UNCHANGED <<pc, entry, inputSizes, iterations, warm, k, calCount,
                 calElapsed, batchSize, dataPoints, raised, outcome>>
  /\ UNCHANGED <<inputMode, warmupSize>>

\* one timed round in which the candidate throws, at the first or at the
\* last invocation of the batch
MeasureThrow ==
  /\ pc = "measure"
  /\ Len(times) < iterations
  /\ BatchCalls(batchSize) > 0
  /\ \E j \in {1, BatchCalls(batchSize)} :
       LET fresh == RoundInput(input, inputMode, inputSizes[k])
       IN /\ invocations' = invocations + j
          /\ input' = Invoked(fresh, j)
          /\ reused' = (reused \/ Reuses(inputMode, fresh, j))
          /\ sizeCalls' = sizeCalls + j
  /\ \E e \in Exceptions : Thrown(e)
  /\ UNCHANGED <<classVars, frontVars>>
  /\ UNCHANGED <<entry, inputSizes, iterations, warm, k, calCount, calElapsed,
                 batchSize, times, dataPoints>>
  /\ UNCHANGED <<inputMode, warmupSize>>

\* lines 158-161: the sample of this size is emitted
EmitSample ==
  /\ pc = "measure"
  /\ Len(times) = iterations
  /\ dataPoints' = PushDataPoint(dataPoints, inputSizes[k], MeanOf(times))
  /\ k' = k + 1
  /\ pc' = "loop"
  /\ UNCHANGED <<classVars, frontVars>>
  /\ UNCHANGED <<entry, inputSizes, iterations, warm, calCount, calElapsed,
                 batchSize, times, invocations, raised, outcome>>
  /\ UNCHANGED <<inputMode, warmupSize, input, reused, sizeCalls>>

\* line 164: runAnalysis returns dataPoints; runSingleAnalysis hands them to
\* determineComplexity and returns its value (lines 72-73), recorded here as
\* the samples classified (DetermineComplexity below gives the value)
Return ==
  /\ pc = "loop"
  /\ k > Len(inputSizes)
  /\ pc' = "done"
  /\ outcome' = [NoOutcome EXCEPT
                   !.kind = IF entry = "runAnalysis" THEN "samples" ELSE "classified",
                   !.samples = dataPoints]
  /\ UNCHANGED <<classVars, frontVars>>
  /\ UNCHANGED <<entry, inputSizes, iterations, warm, k, calCount, calElapsed,
                 batchSize, times, dataPoints, invocations, raised>>
  /\ UNCHANGED <<inputMode, warmupSize, input, reused, sizeCalls>>

NextBench ==
  \/ FacadeShortCircuit
  \/ EnterRunAnalysis
  \/ WarmupInvoke
  \/ WarmupThrow
  \/ WarmupDone
  \/ BeginSize
  \/ CalibrateInvoke
  \/ CalibrateThrow
  \/ CalibrateExit
  \/ MeasureRound
  \/ MeasureThrow
  \/ EmitSample
  \/ Return

----------------------------------------------------------------------------
(* determineComplexity                                                     *)
(*                                                                         *)
(* A sample is [n, time, nan]: time / timeDen is the time in milliseconds, *)
(* and nan says the time is NaN (time is then 0).  Sizes are powers of 2,  *)
(* so that log2(n) is an integer: Math.log(n) = ln(2) * log2(n), and the   *)
(* residuals of a least-squares line do not change when the covariate is   *)
(* scaled, so the RMSE over ln(n) is the RMSE over log2(n).                *)
(* An RMSE is the record [rmse, nan]: the integer floor(RmseScale * r) for *)
(* an RMSE of r / timeDen ms (Math.sqrt kept to 1 / RmseScale), or NaN.    *)
(* The synthetic linear-cost samples have the sizes 1000, 2000, 4000 and    *)
(* 8000: n = 1000 m with m a power of 2.  Their covariates are taken in     *)
(* units that keep the residuals: m for n, m^2 for n^2, log2(m) for ln(n)   *)
(* (an affine map of it), and m (log2(1000) + log2(m)) for n ln(n), with    *)
(* log2(1000) = 9.97 taken as 10.                                           *)
(***************************************************************************)

SampleSizes == {1, 2, 4}
TimeDens == {1, 100000}

Log2(n) == CASE n = 1 -> 0 [] n = 2 -> 1 [] n = 4 -> 2 [] n = 8 -> 3

\* the unit the sizes of a sequence are counted in, and its log2
SizeUnit(n) == IF n >= 1000 THEN 1000 ELSE 1
Log2OfUnit(u) == IF u = 1000 THEN 10 ELSE 0
InUnits(n) == n \div SizeUnit(n)

\* the samples of a linear-cost function at the sizes 1000, 2000, 4000, 8000
LinearSizes == <<1000, 2000, 4000, 8000>>
LinearSamples(slope) ==
  [i \in 1..Len(LinearSizes) |->
     [n |-> LinearSizes[i], time |-> slope * InUnits(LinearSizes[i]), nan |-> FALSE]]
SyntheticLinear == {LinearSamples(slope) : slope \in 1..MaxSlope}

SampleValues ==
  [n : SampleSizes, time : -1..MaxTime, nan : {FALSE}]
    \cup [n : SampleSizes, time : {0}, nan : {TRUE}]

\* sample sequences of at most MaxSamples samples with pairwise distinct n
SampleSeqs ==
  UNION {{s \in [1..len -> SampleValues] :
            \A i, j \in 1..len : i # j => s[i].n # s[j].n} : len \in 0..MaxSamples}

\* a time that is finite and not negative
ValidTime(d) == ~d.nan /\ d.time >= 0

\* the covariate of each model (lines 202, 205, 208, 211)
CovariateSwapped(model, n) ==
  CASE model = "linear" -> InUnits(n) * InUnits(n)
    [] model = "quadratic" -> InUnits(n)
    [] model = "logarithmic" -> Log2(InUnits(n))
    [] model = "linearithmic" ->
         InUnits(n) * (Log2OfUnit(SizeUnit(n)) + Log2(InUnits(n)))

Covariate(model, n) ==
  CASE model = "linear" -> InUnits(n)
    [] model = "quadratic" -> InUnits(n) * InUnits(n)
    [] model = "logarithmic" -> Log2(InUnits(n))
    [] model = "linearithmic" ->
         InUnits(n) * (Log2OfUnit(SizeUnit(n)) + Log2(InUnits(n)))

RECURSIVE IsqrtBetween(_, _, _)
\* the r in lo..hi with r * r <= v < (r + 1) * (r + 1)
IsqrtBetween(v, lo, hi) ==
  IF lo = hi THEN lo
  ELSE LET mid == (lo + hi + 1) \div 2
       IN IF mid * mid <= v THEN IsqrtBetween(v, mid, hi)
                            ELSE IsqrtBetween(v, lo, mid - 1)

RECURSIVE Gcd(_, _)
Gcd(a, b) == IF b = 0 THEN a ELSE Gcd(b, a % b)

\* Math.sqrt(num / den) in fixed point: floor(RmseScale * sqrt(num / den));
\* the fraction is reduced first, which keeps the products small
ScaledSqrt(num, den) ==
  LET g == Gcd(den, num)
      p == num \div g
      q == den \div g
      v == (p \div q) * RmseScale * RmseScale
             + ((p % q) * RmseScale * RmseScale) \div q
  IN IsqrtBetween(v, 0, 46340)

NaNRmse == [rmse |-> 0, nan |-> TRUE]

\* timeValues (line 185)
TimeValues(dp) == [i \in 1..Len(dp) |-> [time |-> dp[i].time, nan |-> dp[i].nan]]

HasNaN(dp) == \E i \in 1..Len(dp) : dp[i].nan

SumTimes(dp) == SumOf([i \in 1..Len(dp) |-> dp[i].time])
SumSquares(dp) == SumOf([i \in 1..Len(dp) |-> dp[i].time * dp[i].time])

\* N * sum(t^2) - sum(t)^2 = N^2 times the variance of the times
Tyy(dp) == Len(dp) * SumSquares(dp) - SumTimes(dp) * SumTimes(dp)

\* lines 188-190: the RMSE of the flat predictor mean(time):
\* sqrt(sum((t - mean)^2) / N) = sqrt(Tyy / N^2)
ConstantRMSE(dp) ==
  IF HasNaN(dp) THEN NaNRmse
  ELSE [rmse |-> ScaledSqrt(Tyy(dp), Len(dp) * Len(dp)), nan |-> FALSE]

\* lines 193-199: ss.linearRegression gives, for one point, m = 0 and b = y,
\* and otherwise m = A / D and b = (sum(t) - m sum(x)) / N with
\*   A = N sum(x t) - sum(x) sum(t),  D = N sum(x^2) - sum(x)^2;
\* the squared residuals of that line add up to (D Tyy - A^2) / (N D)
RegressionRMSE(dp, model) ==
  LET N == Len(dp)
      x == [i \in 1..N |-> Covariate(model, dp[i].n)]
      sumX == SumOf(x)
      sumXX == SumOf([i \in 1..N |-> x[i] * x[i]])
      sumXY == SumOf([i \in 1..N |-> x[i] * dp[i].time])
      A == N * sumXY - sumX * SumTimes(dp)
      D == N * sumXX - sumX * sumX
  IN IF HasNaN(dp) THEN NaNRmse
     ELSE IF N = 1 THEN [rmse |-> 0, nan |-> FALSE]
     ELSE [rmse |-> ScaledSqrt(D * Tyy(dp) - A * A, N * N * D), nan |-> FALSE]

\* models (lines 213-219)
Models(dp) ==
  LET c == ConstantRMSE(dp)
      lg == RegressionRMSE(dp, "logarithmic")
      li == RegressionRMSE(dp, "linear")
      nl == RegressionRMSE(dp, "linearithmic")
      q == RegressionRMSE(dp, "quadratic")
  IN << [type |-> "O(1) - Constant", rmse |-> c.rmse, nan |-> c.nan, complexity |-> 1],
        [type |-> "O(log n) - Logarithmic", rmse |-> lg.rmse, nan |-> lg.nan, complexity |-> 2],
        [type |-> "O(n) - Linear", rmse |-> li.rmse, nan |-> li.nan, complexity |-> 3],
        [type |-> "O(n log n) - Linear-ithmic", rmse |-> nl.rmse, nan |-> nl.nan, complexity |-> 4],
        [type |-> "O(n^2) - Quadratic", rmse |-> q.rmse, nan |-> q.nan, complexity |-> 5] >>

\* the comparator (a, b) => a.rmse - b.rmse says a goes after b
\* (NaN - NaN is NaN, which sort takes for 0)
RmseAfterDescending(a, b) == ~a.nan /\ ~b.nan /\ a.rmse < b.rmse

RmseAfter(a, b) == ~a.nan /\ ~b.nan /\ a.rmse > b.rmse

RECURSIVE InsertByRmse(_, _)
InsertByRmse(sorted, m) ==
  IF sorted = <<>> THEN <<m>>
  ELSE IF RmseAfter(Head(sorted), m) THEN <<m>> \o sorted
  ELSE <<Head(sorted)>> \o InsertByRmse(Tail(sorted), m)

RECURSIVE SortByRmse(_)
\* Array.prototype.sort with that comparator (lines 221, 258, 280): stable
SortByRmse(ms) ==
  IF ms = <<>> THEN <<>>
  ELSE InsertByRmse(SortByRmse(SubSeq(ms, 1, Len(ms) - 1)), ms[Len(ms)])

\* isUltraFast = meanTime < 1e-4 (line 227), meanTime = sum / (N * den) ms
IsUltraFast(dp, den) ==
  ~HasNaN(dp) /\ SumTimes(dp) * UltraFastInv < Len(dp) * den

\* find(m => m.type.includes(...)) (lines 230-231)
FindModel(ms, complexity) ==
  ms[CHOOSE i \in 1..Len(ms) : ms[i].complexity = complexity]

\* lines 230-238: the best model of the ultra-fast regime
UltraFastBestLowest(ms) == ms[1]

UltraFastBest(ms) ==
  LET o1Model == FindModel(ms, 1)
      logModel == FindModel(ms, 2)
  IN IF ~logModel.nan /\ ~o1Model.nan /\ logModel.rmse < o1Model.rmse
       THEN logModel
       ELSE o1Model

\* lines 246-247: diff = (candidate.rmse - bestModel.rmse) / (bestModel.rmse || 1e-9)
\* and diff < 0.15.  With a best RMSE of 0 the difference c (c / (RmseScale * den) ms)
\* is divided by 1e-9: c * K * 100 < 15 for K = EpsilonInv / (RmseScale * den),
\* that is c <= 14 \div (100 * K), which keeps the numbers small
WithinTolerance(candidate, best, den) ==
  /\ ~candidate.nan
  /\ ~best.nan
  /\ IF best.rmse # 0
       THEN (candidate.rmse - best.rmse) * 100 < TolerancePct * best.rmse
       ELSE candidate.rmse - best.rmse
              <= (TolerancePct - 1) \div (100 * (EpsilonInv \div (RmseScale * den)))

\* line 245 and 247: the candidate replaces the best model
PromotesNever(candidate, best, den) == FALSE

Promotes(candidate, best, den) ==
  /\ candidate.complexity < best.complexity
  /\ WithinTolerance(candidate, best, den)

RECURSIVE TieBreakFrom(_, _, _, _)
\* the loop of lines 243-251 from index i on (i = 2 is models[1])
TieBreakFrom(ms, i, best, den) ==
  IF i > Len(ms) THEN best
  ELSE TieBreakFrom(ms, i + 1,
                    IF Promotes(ms[i], best, den) THEN ms[i] ELSE best, den)

\* lines 223, 243-251: the best model of the standard regime
StandardBestFromThird(ms, den) == TieBreakFrom(ms, 3, ms[1], den)

StandardBest(ms, den) == TieBreakFrom(ms, 2, ms[1], den)

\* lines 258-262: the model the separation compares the best one with
SecondBest(ms, best) ==
  LET sortedByFit == SortByRmse(ms)
  IN IF sortedByFit[1] = best THEN sortedByFit[2] ELSE sortedByFit[1]

\* lines 254-256: fitQuality = max(0, 1 - 2 * rmse / signalMagnitude), as the
\* fraction num / den; the RMSE is best.rmse / (RmseScale * den) ms, the mean
\* sum / (N * den) ms, and the substitute signal is 1 ms
FitQuality(dp, best, den) ==
  LET sum == SumTimes(dp)
      N == Len(dp)
      full == IF sum > 0 THEN RmseScale * sum ELSE RmseScale * den
      lost == IF sum > 0 THEN 2 * best.rmse * N ELSE 2 * best.rmse
  IN [num |-> Max(0, full - lost), den |-> full]

\* lines 264-268: separation = min(1, (second - best) / (second || 1)), as
\* the fraction num / den; the substitute 1 is 1 ms
Separation(secondBest, best, den) ==
  LET d == IF secondBest.rmse # 0 THEN secondBest.rmse ELSE RmseScale * den
      n == secondBest.rmse - best.rmse
  IN [num |-> IF n > d THEN d ELSE n, den |-> d]

\* Math.round((f * 0.7 + s * 0.3) * 100) (lines 270, 284) for the fractions
\* f and s: floor(70 f + 30 s + 1/2)
RoundedConfidence(f, s) ==
  (2 * FitWeight * f.num * s.den + 2 * SeparationWeight * s.num * f.den
     + f.den * s.den) \div (2 * f.den * s.den)

\* results (lines 274-280)
Results(ms) ==
  LET r == [i \in 1..Len(ms) |-> [type |-> ms[i].type, rmse |-> ms[i].rmse, nan |-> ms[i].nan]]
  IN SortByRmse(r)

ThrewResult ==
  [threw |-> TRUE, bestFit |-> "", confidence |-> 0,
   confidenceNaN |-> FALSE, results |-> <<>>]

\* determineComplexity (lines 183-287); ss.mean throws on an empty array
DetermineComplexity(dp, den) ==
  IF Len(dp) = 0 THEN ThrewResult
  ELSE
    LET models == SortByRmse(Models(dp))
    IN IF IsUltraFast(dp, den)
         THEN [threw |-> FALSE,
               bestFit |-> UltraFastBest(models).type,
               confidence |-> UltraFastConfidence,
               confidenceNaN |-> FALSE,
               results |-> Results(models)]
         ELSE
           LET bestModel == StandardBest(models, den)
               secondBest == SecondBest(models, bestModel)
           IN [threw |-> FALSE,
               bestFit |-> bestModel.type,
               confidence |->
                 IF HasNaN(dp) THEN 0
                 ELSE RoundedConfidence(FitQuality(dp, bestModel, den),
                                        Separation(secondBest, bestModel, den)),
               confidenceNaN |-> HasNaN(dp),
               results |-> Results(models)]

\* the caller's array after a call: determineComplexity reads dataPoints
\* through map (lines 184, 185, 194, 197) and sorts only its own arrays
RECURSIVE InsertByTime(_, _)
InsertByTime(sorted, d) ==
  IF sorted = <<>> THEN <<d>>
  ELSE IF Head(sorted).time > d.time THEN <<d>> \o sorted
  ELSE <<Head(sorted)>> \o InsertByTime(Tail(sorted), d)

RECURSIVE DataPointsAfterSorted(_)
DataPointsAfterSorted(dp) ==
  IF dp = <<>> THEN <<>>
  ELSE InsertByTime(DataPointsAfterSorted(SubSeq(dp, 1, Len(dp) - 1)), dp[Len(dp)])

DataPointsAfter(dp) == dp

InitClassify ==
  /\ cpc = "call"
  /\ samples \in SampleSeqs \cup SyntheticLinear
  /\ timeDen \in TimeDens
  /\ regressed = <<>>
  /\ classification = NoResult
  /\ given = samples
  /\ second = NoResult

\* determineComplexity returns
ClassifyReturn ==
  /\ cpc = "call"
  /\ ~DetermineComplexity(samples, timeDen).threw
  /\ cpc' = "returned"
  /\ regressed' = TimeValues(samples)
  /\ classification' = DetermineComplexity(samples, timeDen)
  /\ samples' = DataPointsAfter(samples)
  /\ UNCHANGED <<timeDen, given, second>>
  /\ UNCHANGED <<benchVars, frontVars>>

\* the caller calls determineComplexity again on the same array
ClassifyAgain ==
  /\ cpc = "returned"
  /\ cpc' = "again"
  /\ second' = DetermineComplexity(samples, timeDen)
  /\ samples' = DataPointsAfter(samples)
  /\ UNCHANGED <<timeDen, regressed, classification, given>>
  /\ UNCHANGED <<benchVars, frontVars>>

\* determineComplexity throws what ss.mean threw (line 188)
ClassifyThrow ==
  /\ cpc = "call"
  /\ DetermineComplexity(samples, timeDen).threw
  /\ cpc' = "threw"
  /\ classification' = DetermineComplexity(samples, timeDen)
  /\ UNCHANGED <<samples, timeDen, regressed, given, second>>
  /\ UNCHANGED <<benchVars, frontVars>>

NextClassify ==
  \/ ClassifyReturn
  \/ ClassifyAgain
  \/ ClassifyThrow

----------------------------------------------------------------------------
(* The consumers: the size generators and the low-confidence gate          *)
(*                                                                         *)
(*   web     App.js: reducer (lines 34-52), handleSubmit (lines 78-123)    *)
(*   cli     index.js: displayAnalysis, main (part_001 lines 232-386)      *)
(*   verify  verifyAlg.js: formatResult, main (lines 5-59)                 *)
(***************************************************************************)

\* what parseInt gives for the numbers a user enters
ParamValues == -1..MaxParam
Params == [a : ParamValues, b : ParamValues, c : ParamValues]

\* the confidences a result may carry
ConfidenceValues == {-2, 0, 74, 75, 76, 95, 100}

RECURSIVE Pow(_, _)
Pow(base, e) == IF e <= 0 THEN 1 ELSE base * Pow(base, e - 1)

\* App.js line 84
SuperRangeWeb == [i \in 1..100 |-> i * 10]
\* App.js line 88: length powersOf10Count, 10 ** (i + 1)
PowersOf10Web(count) == [i \in 1..count |-> Pow(10, i)]
\* App.js line 91: length doublingCount, doublingStart * 2 ** i
DoublingWeb(start, count) == [i \in 1..count |-> start * Pow(2, i - 1)]
\* App.js line 100
DefaultSizesWeb == <<10, 100, 1000, 10000>>

\* index.js line 341: for (i = 1; i <= maxPower; i++) push(10 ** i)
PowersOf10Cli(maxPower) == [i \in 1..maxPower |-> Pow(10, i)]
\* index.js lines 346-350: push(current); current *= 2, steps times
DoublingCli(startSize, steps) == [i \in 1..steps |-> startSize * Pow(2, i - 1)]
\* index.js line 356: push(startSize + i * stepSize) for i < count
LinearCli(startSize, stepSize, count) ==
  [i \in 1..count |-> startSize + (i - 1) * stepSize]
\* index.js line 382
SuperRangeCli == <<10, 1000, 100000, 10000000>>

\* verifyAlg.js lines 6-7 and 10; line 43 filters the sizes of quadraticTime
VerifyPlans ==
  {<<10, 100, 1000, 10000>>, <<2000, 4000, 6000, 8000>>,
   <<10, 100, 1000>>, <<2000, 4000, 6000>>, <<10, 1000, 100000, 10000000>>}

\* the state of the reducer (the fields it writes) as initialState has it
NoWebResult == [present |-> FALSE, confidence |-> 0]
InitialWeb ==
  [isLoading |-> FALSE, result |-> NoWebResult, error |-> FALSE,
   isBigOVisible |-> FALSE]

\* ANALYSIS_SUCCESS: isBigOVisible (App.js line 45)
VisibleByDefault(confidence) == confidence >= GateThreshold

\* reducer (App.js lines 34-52)
Reducer(state, action) ==
  CASE action.type = "SET_FIELD" ->
         [state EXCEPT ![action.field] = action.value]
    [] action.type = "START_ANALYSIS" ->
         [state EXCEPT !.isLoading = TRUE, !.error = FALSE, !.result = NoWebResult]
    [] action.type = "ANALYSIS_SUCCESS" ->
         [state EXCEPT !.isLoading = FALSE,
                       !.result = [present |-> TRUE, confidence |-> action.confidence],
                       !.isBigOVisible = VisibleByDefault(action.confidence)]
    [] action.type = "ANALYSIS_ERROR" ->
         [state EXCEPT !.isLoading = FALSE, !.error = TRUE]
    [] OTHER -> state

NothingShown ==
  [present |-> FALSE, confidence |-> 0, green |-> FALSE, warned |-> FALSE]

\* displayAnalysis (index.js lines 234-241): the label is printed, the
\* confidence in green above the threshold, the warning at or below it
Warns(confidence) == confidence <= GateThreshold

DisplayAnalysis(confidence) ==
  [present |-> TRUE, confidence |-> confidence,
   green |-> confidence > GateThreshold, warned |-> Warns(confidence)]

\* formatResult (verifyAlg.js lines 17-23): the label, and the confidence
\* after it at or below the threshold
FormatResult(confidence) ==
  [present |-> TRUE, confidence |-> confidence,
   green |-> FALSE, warned |-> confidence <= GateThreshold]

WebStrategies == {"super", "powersOf10", "doubling", "linear", "default"}
CliStrategies == {"Powers of 10", "Doubling", "Linear Steps"}

InitFront ==
  /\ fpc = "form"
  /\ consumer \in {"web", "cli", "verify"}
  /\ strategy \in CASE consumer = "web" -> WebStrategies
                    [] consumer = "cli" -> CliStrategies
                    [] OTHER -> {"fixed"}
  /\ params \in IF consumer = "verify" THEN {[a |-> 0, b |-> 0, c |-> 0]} ELSE Params
  /\ plan = <<>>
  /\ cursor = 0
  /\ web = InitialWeb
  /\ shown = NothingShown
  /\ reran = FALSE
  /\ overrun = 0

\* handleSubmit (App.js lines 78-102): START_ANALYSIS, then the sizes; the
\* linear strategy enters its loop with i = linearStart
WebSubmit ==
  /\ consumer = "web"
  /\ fpc \in {"form", "shown", "revealed", "failed"}
  /\ web' = Reducer(web, [type |-> "START_ANALYSIS"])
  /\ CASE strategy = "super" ->
            plan' = SuperRangeWeb /\ fpc' = "awaiting" /\ UNCHANGED cursor
       [] strategy = "powersOf10" ->
            plan' = PowersOf10Web(params.a) /\ fpc' = "awaiting" /\ UNCHANGED cursor
       [] strategy = "doubling" ->
            plan' = DoublingWeb(params.a, params.b) /\ fpc' = "awaiting"
              /\ UNCHANGED cursor
       [] strategy = "linear" ->
            plan' = <<>> /\ cursor' = params.a /\ fpc' = "planning"
       [] OTHER ->
            plan' = DefaultSizesWeb /\ fpc' = "awaiting" /\ UNCHANGED cursor
  /\ UNCHANGED <<consumer, strategy, params, shown, reran, overrun>>
  /\ UNCHANGED <<benchVars, classVars>>

\* App.js lines 95-97: one turn of the loop, i <= linearEnd.  Of the sizes
\* pushed the first MaxPlan are kept, the later ones are counted modulo 2,
\* and an i that moves away from linearEnd is followed no further
WebLinearPush ==
  /\ consumer = "web"
  /\ fpc = "planning"
  /\ cursor <= params.b
  /\ IF Len(plan) < MaxPlan
       THEN /\ plan' = Append(plan, cursor)
            /\ cursor' = cursor + params.c
            /\ UNCHANGED overrun
       ELSE /\ plan' = plan
            /\ cursor' = IF params.c < 0 THEN cursor ELSE cursor + params.c
            /\ overrun' = 1 - overrun
  /\ UNCHANGED <<fpc, consumer, strategy, params, web, shown, reran>>
  /\ UNCHANGED <<benchVars, classVars>>

\* the loop is left and the request is sent (App.js lines 104-111)
WebLinearDone ==
  /\ consumer = "web"
  /\ fpc = "planning"
  /\ ~(cursor <= params.b)
  /\ fpc' = "awaiting"
  /\ UNCHANGED <<consumer, strategy, params, plan, cursor, web, shown, reran, overrun>>
  /\ UNCHANGED <<benchVars, classVars>>

\* App.js lines 115-116: the response is ok
WebSuccess ==
  /\ consumer = "web"
  /\ fpc = "awaiting"
  /\ \E confidence \in ConfidenceValues :
       web' = Reducer(web, [type |-> "ANALYSIS_SUCCESS", confidence |-> confidence])
  /\ fpc' = "shown"
  /\ UNCHANGED <<consumer, strategy, params, plan, cursor, shown, reran, overrun>>
  /\ UNCHANGED <<benchVars, classVars>>

\* App.js lines 117-121: the response is an error, or there is none
WebError ==
  /\ consumer = "web"
  /\ fpc = "awaiting"
  /\ web' = Reducer(web, [type |-> "ANALYSIS_ERROR"])
  /\ fpc' = "failed"
  /\ UNCHANGED <<consumer, strategy, params, plan, cursor, shown, reran, overrun>>
  /\ UNCHANGED <<benchVars, classVars>>

\* App.js line 282: the click on the low-confidence line
WebReveal ==
  /\ consumer = "web"
  /\ fpc = "shown"
  /\ ~web.isBigOVisible
  /\ web' = Reducer(web, [type |-> "SET_FIELD", field |-> "isBigOVisible",
                          value |-> TRUE])
  /\ fpc' = "revealed"
  /\ UNCHANGED <<consumer, strategy, params, plan, cursor, shown, reran, overrun>>
  /\ UNCHANGED <<benchVars, classVars>>

\* main (index.js lines 337-357): the sizes of the chosen strategy
CliPlan ==
  /\ consumer = "cli"
  /\ fpc = "form"
  /\ plan' = CASE strategy = "Powers of 10" -> PowersOf10Cli(params.a)
               [] strategy = "Doubling" -> DoublingCli(params.a, params.b)
               [] OTHER -> LinearCli(params.a, params.b, params.c)
  /\ fpc' = "awaiting"
  /\ UNCHANGED <<consumer, strategy, params, cursor, web, shown, reran, overrun>>
  /\ UNCHANGED <<benchVars, classVars>>

\* runAndDisplayAnalysis (index.js lines 259-272): the analysis is displayed
CliDisplay ==
  /\ consumer = "cli"
  /\ fpc = "awaiting"
  /\ \E confidence \in ConfidenceValues : shown' = DisplayAnalysis(confidence)
  /\ fpc' = "shown"
  /\ UNCHANGED <<consumer, strategy, params, plan, cursor, web, reran, overrun>>
  /\ UNCHANGED <<benchVars, classVars>>

\* main (index.js lines 363-384): at a low confidence the user accepts the
\* high-precision run on the super range
CliRerun ==
  /\ consumer = "cli"
  /\ fpc = "shown"
  /\ ~reran
  /\ shown.confidence <= GateThreshold
  /\ plan' = SuperRangeCli
  /\ reran' = TRUE
  /\ fpc' = "awaiting"
  /\ UNCHANGED <<consumer, strategy, params, cursor, web, shown, overrun>>
  /\ UNCHANGED <<benchVars, classVars>>

\* verifyAlg.js lines 39-46 and 52-55: the sizes of one test
VerifyPlan ==
  /\ consumer = "verify"
  /\ fpc = "form"
  /\ plan' \in VerifyPlans
  /\ fpc' = "awaiting"
  /\ UNCHANGED <<consumer, strategy, params, cursor, web, shown, reran, overrun>>
  /\ UNCHANGED <<benchVars, classVars>>

\* verifyAlg.js lines 47 and 56: the result is formatted
VerifyFormat ==
  /\ consumer = "verify"
  /\ fpc = "awaiting"
  /\ \E confidence \in ConfidenceValues : shown' = FormatResult(confidence)
  /\ fpc' = "shown"
  /\ UNCHANGED <<consumer, strategy, params, plan, cursor, web, reran, overrun>>
  /\ UNCHANGED <<benchVars, classVars>>

NextFront ==
  \/ WebSubmit
  \/ WebLinearPush
  \/ WebLinearDone
  \/ WebSuccess
  \/ WebError
  \/ WebReveal
  \/ CliPlan
  \/ CliDisplay
  \/ CliRerun
  \/ VerifyPlan
  \/ VerifyFormat

----------------------------------------------------------------------------
(* The specifications *)

IdleBench ==
  /\ pc = "idle"
  /\ entry = "none"
  /\ inputSizes = <<>>
  /\ iterations = 1
  /\ warm = 0
  /\ k = 0
  /\ calCount = 0
  /\ calElapsed = 0
  /\ batchSize = 1
  /\ times = <<>>
  /\ dataPoints = <<>>
  /\ invocations = 0
  /\ raised = NoException
  /\ outcome = NoOutcome
  /\ inputMode = "array"
  /\ warmupSize = 0
  /\ input = NoInput
  /\ reused = FALSE
  /\ sizeCalls = 0

IdleFront ==
  /\ fpc = "idle"
  /\ consumer = "none"
  /\ strategy = "none"
  /\ params = [a |-> 0, b |-> 0, c |-> 0]
  /\ plan = <<>>
  /\ cursor = 0
  /\ web = InitialWeb
  /\ shown = NothingShown
  /\ reran = FALSE
  /\ overrun = 0

IdleClassify ==
  /\ cpc = "idle"
  /\ samples = <<>>
  /\ timeDen = 1
  /\ regressed = <<>>
  /\ classification = NoResult
  /\ given = <<>>
  /\ second = NoResult

Init == InitBench /\ IdleClassify /\ IdleFront
Next == NextBench
Spec == Init /\ [][Next]_vars

InitC == InitClassify /\ IdleBench /\ IdleFront
NextC == NextClassify
SpecClassify == InitC /\ [][NextC]_vars

InitF == InitFront /\ IdleBench /\ IdleClassify
NextF == NextFront
SpecFront == InitF /\ [][NextF]_vars

\* the same with the progress the code makes by itself: handleSubmit runs its
\* loop without yielding (App.js lines 95-97) and sends the request, the
\* request is settled by a response or a failure (lines 105-122), and main
\* builds its sizes once the numbers are entered (index.js lines 337-357).
\* Submitting and revealing are the user's to do or not
SpecFrontLive ==
  /\ InitF
  /\ [][NextF]_vars
  /\ WF_vars(WebLinearPush)
  /\ WF_vars(WebLinearDone)
  /\ WF_vars(WebSuccess \/ WebError)
  /\ WF_vars(CliPlan)

----------------------------------------------------------------------------
(* The claims *)

ModelTypes ==
  {"O(1) - Constant", "O(log n) - Logarithmic", "O(n) - Linear",
   "O(n log n) - Linear-ithmic", "O(n^2) - Quadratic"}

\* at least 2 samples, every time finite and not negative
ValidSamples(dp) == Len(dp) >= 2 /\ \A i \in 1..Len(dp) : ValidTime(dp[i])

\* the mean time is below 1e-4 ms
MeanBelowThreshold(dp, den) ==
  ~HasNaN(dp) /\ SumTimes(dp) * UltraFastInv < Len(dp) * den

\* a result with no classification in it
IsDegenerate(r) ==
  ~r.threw /\ r.bestFit \notin ModelTypes /\ r.confidence = 0
    /\ ~r.confidenceNaN /\ r.results = <<>>

\* the fit of the returned result that has this type
FitOf(r, type) == r.results[CHOOSE i \in 1..Len(r.results) : r.results[i].type = type]

\* the sorted models of the classified samples, and the one returned as best
SortedModels == SortByRmse(Models(samples))
ChosenModel ==
  SortedModels[CHOOSE i \in 1..5 : SortedModels[i].type = classification.bestFit]

RECURSIVE RankOrderScan(_, _, _, _)
\* the tie-break as the specification words it: the candidates are visited
\* in ascending complexity rank
RankOrderScan(ms, rank, best, den) ==
  IF rank > 5 THEN best
  ELSE LET candidate == FindModel(ms, rank)
       IN RankOrderScan(ms, rank + 1,
            IF candidate.complexity < best.complexity
                 /\ WithinTolerance(candidate, best, den)
              THEN candidate ELSE best, den)

RankOrderBest == RankOrderScan(SortedModels, 1, SortedModels[1], timeDen)

\* C1: for a valid sample sequence the confidence returned by
\* determineComplexity is a number between 0 and 100, in both regimes
C1_ConfidenceWithinBounds ==
  (cpc = "returned" /\ ValidSamples(samples)) =>
    /\ ~classification.confidenceNaN
    /\ classification.confidence >= 0
    /\ classification.confidence <= 100

\* C2: determineComplexity called with fewer than 2 samples returns the
\* degenerate result (no model label, confidence 0, no fits) and does not throw
C2_DegenerateBelowTwoSamples ==
  (cpc # "call" /\ Len(samples) < 2) =>
    cpc = "returned" /\ IsDegenerate(classification)

\* the valid sample sequences of fewer than 2 samples
ShortSampleSeqs ==
  {<<>>} \cup {<<v>> : v \in {w \in SampleValues : ValidTime(w)}}

\* C3: runSingleAnalysis called with fewer than 2 sizes returns the value
\* determineComplexity gives for fewer than 2 samples, and the candidate is
\* never invoked
C3_ShortCircuitIsClassifierResult ==
  (pc = "done" /\ entry = "runSingleAnalysis" /\ Len(inputSizes) < 2) =>
    /\ invocations = 0
    /\ outcome.kind = "result"
    /\ \A s \in ShortSampleSeqs : \A den \in TimeDens :
         outcome.result = DetermineComplexity(s, den)

\* C4: the calibration loop invokes the candidate at most CalLimit times
\* (the ceiling) and at least once, and when it is left either the elapsed
\* time has reached the threshold or the count is the ceiling
C4_CalibrationBounded ==
  /\ calCount <= CalLimit
  /\ pc = "measure" =>
       /\ calCount >= 1
       /\ calElapsed >= CalThreshold \/ calCount = CalLimit

\* C4 witness: the clock never advanced and the loop stopped at the ceiling
C4_Witness ==
  pc = "measure" /\ calCount = CalLimit /\ calElapsed = 0

\* C5 as claimed: batchSize = max(1, ceil(15 * count / duration)) for every
\* count >= 1 (stated where the duration is not 0)
C5_BatchSizeFormula ==
  (pc = "measure" /\ calElapsed > 0) =>
    batchSize = Max(1, CeilDiv(TargetDuration * calCount, calElapsed))

\* C5 amended: batchSize is 1 when the calibration made one invocation,
\* whatever it took; after more than one invocation it is the least integer
\* b >= 1 with b * duration >= 15 * count, and 15 * count / 0.001 when the
\* duration is 0
C5_BatchSizeAmended ==
  pc = "measure" =>
    /\ calCount = 1 => batchSize = 1
    /\ (calCount > 1 /\ calElapsed > 0) =>
         /\ batchSize >= 1
         /\ batchSize * calElapsed >= TargetDuration * calCount
         /\ (batchSize - 1) * calElapsed < TargetDuration * calCount
    /\ (calCount > 1 /\ calElapsed = 0) =>
         batchSize = TargetDuration * calCount * ZeroDurationInv

\* C5 witness: one calibration invocation of 7 ms; the formula gives 3
C5_Witness ==
  /\ pc = "measure" /\ calCount = 1 /\ calElapsed = 7 /\ batchSize = 1
  /\ CeilDiv(TargetDuration * calCount, calElapsed) = 3

\* the sizes of a sample sequence are the requested sizes, in their order
SizesOf(dp) == [i \in 1..Len(dp) |-> dp[i].n]

\* C6: runAnalysis returns one sample per element of inputSizes, in the
\* order of inputSizes (while it runs, dataPoints holds the samples of the
\* sizes before the current one)
C6_OneSamplePerSize ==
  /\ pc \in {"loop", "calibrate", "measure"} =>
       SizesOf(dataPoints) = SubSeq(inputSizes, 1, k - 1)
  /\ outcome.kind \in {"samples", "classified"} =>
       SizesOf(outcome.samples) = inputSizes

\* C6 witness: a run returned the samples of two sizes that are not ascending
C6_Witness ==
  /\ outcome.kind = "samples"
  /\ Len(inputSizes) = 2
  /\ inputSizes[1] > inputSizes[2]

\* C7: once the candidate has thrown, the caller gets that exception and no
\* samples, and the run is over: no action is enabled that could invoke the
\* candidate again
C7_ExceptionPropagates ==
  /\ raised # NoException <=> pc = "thrown"
  /\ pc = "thrown" =>
       /\ outcome.kind = "throw"
       /\ outcome.exc = raised
       /\ outcome.samples = <<>>
       /\ ~ENABLED Next

\* C7 witness: the candidate threw in a measurement, after a sample was taken
C7_Witness ==
  pc = "thrown" /\ Len(dataPoints) >= 1 /\ Len(times) >= 1

C9_UltraFastRule ==
  (cpc = "returned" /\ MeanBelowThreshold(samples, timeDen)) =>
    /\ classification.confidence = UltraFastConfidence
    /\ ~classification.confidenceNaN
    /\ classification.bestFit =
         IF FitOf(classification, "O(log n) - Logarithmic").rmse
              < FitOf(classification, "O(1) - Constant").rmse
           THEN "O(log n) - Logarithmic"
           ELSE "O(1) - Constant"

\* C9 witness: logarithmic is returned although it has neither the lowest
\* RMSE nor the tie-break's favour
C9_Witness ==
  /\ cpc = "returned" /\ ValidSamples(samples)
  /\ MeanBelowThreshold(samples, timeDen)
  /\ classification.bestFit = "O(log n) - Logarithmic"
  /\ classification.results[1].type = "O(n^2) - Quadratic"
  /\ StandardBest(SortedModels, timeDen).type # "O(log n) - Logarithmic"

\* C10: no negative or non-finite time is fed to the regressions
C10_InvalidTimesRejected ==
  cpc = "returned" =>
    \A i \in 1..Len(regressed) : ~regressed[i].nan /\ regressed[i].time >= 0

\* the smallest of the requested sizes
MinOf(sizes) ==
  CHOOSE m \in {sizes[i] : i \in 1..Len(sizes)} :
    \A i \in 1..Len(sizes) : m <= sizes[i]

\* C12: for non-empty sizes the warmup runs on the input made for the
\* smallest requested size, invokes the candidate WarmupRuns times on it, and
\* is over before the first calibration or measurement invocation
C12_WarmupOnSmallestSize ==
  (Len(inputSizes) > 0 /\ pc \in {"warmup", "loop", "calibrate", "measure"}) =>
    /\ warmupSize = MinOf(inputSizes)
    /\ pc = "warmup" => (invocations = warm /\ input.n = warmupSize)
    /\ pc # "warmup" => warm = WarmupRuns

\* C17 as claimed: in array mode no invocation is passed an array that an
\* earlier invocation was passed
C17_EveryInvocationFresh ==
  inputMode = "array" => ~reused

\* C17 amended: in array mode the warmup, the calibration of each size and
\* each measurement round make one new array for their size and pass it to
\* all their invocations; no array goes from one of them to the next
C17_FreshPerPhase ==
  inputMode = "array" =>
    /\ (pc = "warmup" /\ Len(inputSizes) > 0) =>
         input = [n |-> inputSizes[1], uses |-> warm]
    /\ pc = "calibrate" => input = [n |-> inputSizes[k], uses |-> calCount]
    /\ (pc = "measure" /\ Len(times) > 0) =>
         input = [n |-> inputSizes[k], uses |-> batchSize]
    /\ reused => invocations > 1

\* C17 witness: a measurement round passed its array to a batch of several
\* invocations
C17_Witness ==
  /\ inputMode = "array" /\ pc = "measure" /\ Len(times) > 0
  /\ batchSize > 1 /\ input.uses = batchSize /\ reused

\* the numerators of the estimates of one size
Elapsed(ts) == [i \in 1..Len(ts) |-> ts[i].num]

\* C19: per size the measurement makes `iterations` rounds of batchSize
\* invocations, every estimate is the elapsed time over batchSize, the sample
\* time is the mean of the estimates, and the candidate is invoked
\* calCount + iterations * batchSize times
C19_MeasurementRounds ==
  /\ pc = "measure" =>
       /\ Len(times) <= iterations
       /\ sizeCalls = calCount + Len(times) * batchSize
       /\ \A i \in 1..Len(times) : times[i].den = batchSize
  /\ (pc = "loop" /\ k > 1) =>
       /\ Len(times) = iterations
       /\ sizeCalls = calCount + iterations * batchSize
       /\ dataPoints[k - 1].time.num = SumOf(Elapsed(times))
       /\ dataPoints[k - 1].time.den = batchSize * iterations

\* C19 witness: a sample of two rounds of several invocations, one of which
\* took 7 ms
C19_Witness ==
  /\ pc = "loop" /\ k > 1 /\ iterations = 2 /\ batchSize > 1
  /\ dataPoints[k - 1].time.num = 7
  /\ sizeCalls = calCount + 2 * batchSize

\* C20: batchSize is an integer >= 1 in every measurement, so every estimate
\* and every emitted sample time is a fraction with a positive denominator
\* and a numerator >= 0
C20_SamplesFiniteNonNegative ==
  /\ pc = "measure" => batchSize >= 1
  /\ \A i \in 1..Len(times) : times[i].den >= 1 /\ times[i].num >= 0
  /\ \A i \in 1..Len(dataPoints) :
       dataPoints[i].time.den >= 1 /\ dataPoints[i].time.num >= 0

\* C20 witness: a sample was emitted after a calibration that hit the ceiling
\* on a clock that did not advance
C20_Witness ==
  /\ pc = "loop" /\ k > 1 /\ calCount = CalLimit /\ calElapsed = 0
  /\ dataPoints[k - 1].time.den
       = TargetDuration * CalLimit * ZeroDurationInv * iterations

\* C11: the returned fits hold each of the five models once, in the order of
\* non-decreasing RMSE, whichever model is the best fit
C11_FitsSortedByRmse ==
  (cpc = "returned" /\ ~HasNaN(samples)) =>
    LET fits == classification.results
    IN /\ Len(fits) = 5
       /\ \A t \in ModelTypes : Cardinality({i \in 1..5 : fits[i].type = t}) = 1
       /\ \A i \in 1..4 : ~fits[i].nan /\ fits[i].rmse <= fits[i + 1].rmse

\* C11 witness: the fits have different RMSEs and the best fit is not the
\* first of them
C11_Witness ==
  /\ cpc = "returned" /\ ValidSamples(samples)
  /\ classification.results[1].rmse < classification.results[5].rmse
  /\ classification.bestFit # classification.results[1].type

C16_LinearForAnySlope ==
  (cpc = "returned" /\ given \in SyntheticLinear) =>
    classification.bestFit = "O(n) - Linear"

\* C16 amended: for linear-cost samples the RMSE of linear is 0 and that of
\* every other model is above it; the best fit is linear when the mean time
\* is not below 1e-4, and logarithmic (with confidence 95) when it is
C16_LinearInStandardRegime ==
  (cpc = "returned" /\ given \in SyntheticLinear) =>
    /\ FitOf(classification, "O(n) - Linear").rmse = 0
    /\ \A t \in ModelTypes \ {"O(n) - Linear"} : FitOf(classification, t).rmse > 0
    /\ ~MeanBelowThreshold(given, timeDen) =>
         classification.bestFit = "O(n) - Linear"
    /\ MeanBelowThreshold(given, timeDen) =>
         /\ classification.bestFit = "O(log n) - Logarithmic"
         /\ classification.confidence = UltraFastConfidence

\* C16 witness: linear-cost samples in the standard regime are classified
\* linear, with linear first of the fits
C16_Witness ==
  /\ cpc = "returned" /\ given \in SyntheticLinear
  /\ ~MeanBelowThreshold(given, timeDen)
  /\ classification.bestFit = "O(n) - Linear"
  /\ classification.results[1].type = "O(n) - Linear"
  /\ classification.results[2].rmse > 0

\* C18: in the standard regime the separation is in [0, 1], and the model the
\* best fit is compared with has no lower RMSE than the best fit
C18_SeparationWithinUnit ==
  (cpc = "returned" /\ ValidSamples(samples)
     /\ ~MeanBelowThreshold(samples, timeDen)) =>
    LET secondBest == SecondBest(SortedModels, ChosenModel)
        separation == Separation(secondBest, ChosenModel, timeDen)
    IN /\ separation.num >= 0
       /\ separation.num <= separation.den
       /\ secondBest.rmse >= ChosenModel.rmse

\* C13: every consumer warns about or hides a result whose confidence is at
\* or below the threshold, and shows it plainly only above the threshold
C13_SameGateEverywhere ==
  /\ (consumer = "web" /\ fpc = "shown") =>
       (web.isBigOVisible <=> web.result.confidence > GateThreshold)
  /\ (consumer \in {"cli", "verify"} /\ fpc = "shown") =>
       (shown.warned <=> shown.confidence <= GateThreshold)

\* C14: the sizes a consumer hands to the core are strictly positive and
\* pairwise distinct, whatever numbers the user entered
C14_SizesPositiveDistinct ==
  fpc = "awaiting" =>
    /\ \A i \in 1..Len(plan) : plan[i] > 0
    /\ \A i, j \in 1..Len(plan) : i # j => plan[i] # plan[j]

\* C21: in the standard regime the chosen best fit is a fixed point of the
\* promotion rule: no model of lower complexity rank has an RMSE that exceeds
\* the chosen model's RMSE by a relative margin below 0.15
C21_ChosenIsFixedPoint ==
  (cpc = "returned" /\ ~MeanBelowThreshold(samples, timeDen)) =>
    \A i \in 1..5 :
      SortedModels[i].complexity < ChosenModel.complexity
        => ~WithinTolerance(SortedModels[i], ChosenModel, timeDen)

\* C21 witness: the tie-break promoted a model that is not the simplest one,
\* and every simpler model is out of its tolerance
C21_Witness ==
  /\ cpc = "returned" /\ ValidSamples(samples)
  /\ ~MeanBelowThreshold(samples, timeDen)
  /\ ChosenModel # SortedModels[1]
  /\ ChosenModel.complexity > 1
  /\ \A i \in 1..5 :
       SortedModels[i].complexity < ChosenModel.complexity
         => ~WithinTolerance(SortedModels[i], ChosenModel, timeDen)

\* C22: in the standard regime the RMSE of the chosen best fit exceeds the
\* lowest RMSE of the five models by a relative margin below 0.15
C22_WithinOneBandOfLowest ==
  (cpc = "returned" /\ ValidSamples(samples)
     /\ ~MeanBelowThreshold(samples, timeDen)) =>
    WithinTolerance(ChosenModel, SortedModels[1], timeDen)

\* while isLoading is true both result and error are null, and result and
\* error are never both non-null
LoadingShowsNothing ==
  /\ web.isLoading => (~web.result.present /\ ~web.error)
  /\ ~(web.result.present /\ web.error)

\* a request is settled by exactly one of ANALYSIS_SUCCESS and ANALYSIS_ERROR
SettledOnce ==
  (fpc = "awaiting" /\ fpc' # "awaiting" /\ consumer = "web") =>
    /\ web.isLoading /\ ~web'.isLoading
    /\ web'.result.present # web'.error

\* C23: every submission dispatches START_ANALYSIS and then exactly one of
\* ANALYSIS_SUCCESS and ANALYSIS_ERROR, so isLoading eventually returns to
\* false; while isLoading is true result and error are null, and they are
\* never both non-null
C23_SubmissionSettles ==
  /\ [](consumer = "web" => LoadingShowsNothing)
  /\ [][SettledOnce]_vars
  /\ (consumer = "web" /\ web.isLoading) ~> ~web.isLoading

\* C24: the construction of the size plan ends, for every number the user
\* can enter: the web linear loop reaches the request, and the CLI loops
\* hand their sizes to the analysis
C24_PlanConstructionEnds ==
  /\ (consumer = "web" /\ fpc = "planning") ~> (fpc = "awaiting")
  /\ (consumer = "cli" /\ fpc = "form") ~> (fpc = "awaiting")

====
